---------------------------- MODULE Spec2Model ----------------------------
(***************************************************************************)
(* A model of the OData data provider of src/src/index.ts: schema          *)
(* discovery (get_entities), the key codec (getresource,                   *)
(* getproperty_identifier), the request each provider operation builds,    *)
(* the handler each operation runs on the transport's response, and the    *)
(* Promise.all join of the batch operations.                               *)
(*                                                                         *)
(* A request is the record of the calls index.ts makes on the odata-client *)
(* query builder (resource, count, orderby, skip, top, filter, expand);    *)
(* the builder is mutable and fluent, which getManyReference relies on     *)
(* (it drops the value of the chain at index.ts:255-258).                  *)
(*                                                                         *)
(* SpecDiscovery is the construction of the provider over every document;  *)
(* Spec is the constructed provider serving its single-request operations; *)
(* SpecBatch is the constructed provider serving getMany and deleteMany,   *)
(* whose sub-requests settle in any order.                                 *)
(***************************************************************************)
EXTENDS Integers, Sequences, FiniteSets, TLC

VARIABLES
    metadata,   \* the parsed $metadata document (index.ts:42-46)
    resources,  \* the catalog get_entities returned (index.ts:96)
    id_map,     \* resource -> key property name, when it is not "id" (index.ts:97-103)
    call,       \* the provider operation in progress and its arguments
    requests,   \* the requests that operation handed to the transport, in order
    slots,      \* per request: what its .then handler produced, or "pending"
    result      \* the promise the operation returned to its caller

vars == <<metadata, resources, id_map, call, requests, slots, result>>

---------------------------------------------------------------------------
(* Bounds of the model *)

MaxPage == 3
MaxPerPage == 2
MaxIds == 3

---------------------------------------------------------------------------
(* Strings.  toLowerCase is given on the names the model uses. *)

toLowerCase(s) ==
    CASE s = "Employees" -> "employees"
      [] s = "Customers" -> "customers"
      [] s = "Tokens"    -> "tokens"
      [] s = "Orders"    -> "orders"
      [] OTHER           -> s

\* An optional value (T | undefined) is a sequence of length 0 or 1.
None == <<>>
Some(v) == <<v>>

\* properties.find((p) => p.Name === name): the first property of that
\* name, or undefined.
find(properties, name) ==
    LET hits == SelectSeq(properties, LAMBDA p : p.Name = name)
    IN  IF hits = <<>> THEN None ELSE Some(Head(hits))

---------------------------------------------------------------------------
(* Schema discovery *)

Prop(n, t) == [Name |-> n, Type |-> t]

EmployeeProps == <<Prop("EmployeeID", "Edm.Int32"), Prop("LastName", "Edm.String"),
                   Prop("Badge", "Edm.Guid")>>
CustomerProps == <<Prop("CustomerID", "Edm.String"), Prop("Region", "Edm.Int64")>>
TokenProps    == <<Prop("TokenID", "Edm.Guid"), Prop("Owner", "Edm.Int32")>>

\* The PropertyRef children a <Key> of a type with these properties may
\* carry: none (no key), one that names a listed property, one that names a
\* property the type does not list itself (an inherited or nested one), two
\* (a compound key: the parser yields an array).
KeyShapes(props) ==
    { <<>>, <<props[1].Name>>, <<"BaseID">>, <<props[1].Name, props[2].Name>> }

EntityTypeDecl(name, props, refs) ==
    [Name |-> name, Property |-> props, PropertyRef |-> refs]

EntitySetDecls ==
    << [Name |-> "Employees", EntityType |-> "NW.Employee"],
       [Name |-> "Customers", EntityType |-> "NW.Customer"],
       [Name |-> "Tokens",    EntityType |-> "NW.Token"],
       [Name |-> "Orders",    EntityType |-> "NW.Order"] >>

\* A parsed document: one schema that declares the types, one that holds
\* the entity container (the layout of the Northwind service).
Document(ek, ck, tk) ==
    [Schema |->
      << [Namespace  |-> "NW",
          EntityType |-> << EntityTypeDecl("Employee", EmployeeProps, ek),
                            EntityTypeDecl("Customer", CustomerProps, ck),
                            EntityTypeDecl("Token", TokenProps, tk) >>,
          EntitySet  |-> <<>>],
         [Namespace  |-> "ODataWeb",
          EntityType |-> <<>>,
          EntitySet  |-> EntitySetDecls] >>]

Documents ==
    { Document(ek, ck, tk) : ek \in KeyShapes(EmployeeProps),
                             ck \in KeyShapes(CustomerProps),
                             tk \in KeyShapes(TokenProps) }

\* The documents the provider operations are explored on: Employees has its
\* Int32 key, Tokens its Guid key, Customers a string key or a key whose
\* property the type does not list; Orders is of an undeclared type and is
\* no resource.
ProgramDocuments ==
    { Document(<<"EmployeeID">>, ck, <<"TokenID">>) :
        ck \in { <<"CustomerID">>, <<"BaseID">> } }

\* The key test without its Array.isArray half: a compound key passes.
SingleKey_anyKey(e) == Len(e.PropertyRef) >= 1

\* e.Key && !Array.isArray(e.Key.PropertyRef)
SingleKey(e) == Len(e.PropertyRef) = 1

\* One entity type of the first loop: its entry of `entities`.
EntityTypeOf(e) ==
    [Property |-> e.Property,
     Key      |-> find(e.Property, e.PropertyRef[1])]

RECURSIVE TypesInto(_, _, _)
TypesInto(entities, namespace, types) ==
    IF types = <<>> THEN entities
    ELSE LET e    == Head(types)
             name == namespace \o "." \o e.Name
             next == IF SingleKey(e)
                     THEN (name :> EntityTypeOf(e)) @@ entities
                     ELSE entities
         IN  TypesInto(next, namespace, Tail(types))

RECURSIVE SchemasInto(_, _)
SchemasInto(entities, schemas) ==
    IF schemas = <<>> THEN entities
    ELSE SchemasInto(TypesInto(entities, Head(schemas).Namespace,
                               Head(schemas).EntityType),
                     Tail(schemas))

RECURSIVE SetsInto(_, _, _)
SetsInto(entitySets, entities, sets) ==
    IF sets = <<>> THEN entitySets
    ELSE LET set  == Head(sets)
             next == IF set.EntityType \in DOMAIN entities
                     THEN (toLowerCase(set.Name) :>
                             [Name |-> set.Name,
                              Url  |-> set.Name,
                              Type |-> entities[set.EntityType],
                              Key  |-> entities[set.EntityType].Key])
                          @@ entitySets
                     ELSE entitySets
         IN  SetsInto(next, entities, Tail(sets))

RECURSIVE ContainersInto(_, _, _)
ContainersInto(entitySets, entities, schemas) ==
    IF schemas = <<>> THEN entitySets
    ELSE ContainersInto(SetsInto(entitySets, entities, Head(schemas).EntitySet),
                        entities, Tail(schemas))

get_entities(doc) ==
    LET entities == SchemasInto(<<>>, doc.Schema)
    IN  ContainersInto(<<>>, entities, doc.Schema)

\* index.ts:97-103
IdMapOf(res) ==
    LET id_name(r) == IF res[r].Key = None THEN "id" ELSE res[r].Key[1].Name
    IN  [r \in { q \in DOMAIN res : id_name(q) # "id" } |-> id_name(r)]

---------------------------------------------------------------------------
(* Values of the provider contract *)

\* An Identifier is a string or a number; undefined stands for an id the
\* caller did not pass.
NumId(n) == [kind |-> "number", num |-> n, str |-> ""]
StrId(s) == [kind |-> "string", num |-> 0, str |-> s]
Undefined == [kind |-> "undefined", num |-> 0, str |-> ""]

\* JavaScript truthiness of an id: undefined, 0 and "" are falsy.
Truthy(id) ==
    CASE id.kind = "undefined" -> FALSE
      [] id.kind = "number"    -> id.num # 0
      [] OTHER                 -> id.str # ""

NoCall == [op |-> "none"]

\* The promise an operation returns: its state, and what it settled with
\* ({data, total} or {data: json}, or the rejection's error).
Promise(state, data, total, json, error) ==
    [state |-> state, data |-> data, total |-> total, json |-> json, error |-> error]

Idle == Promise("idle", <<>>, <<>>, <<>>, <<>>)

Constructing == Promise("constructing", <<>>, <<>>, <<>>, <<>>)

---------------------------------------------------------------------------
(* Construction: ra_data_odata_server awaits get_entities, then builds id_map *)

InitDiscovery ==
    /\ metadata \in Documents
    /\ resources = <<>>
    /\ id_map = <<>>
    /\ call = NoCall
    /\ requests = <<>>
    /\ slots = <<>>
    /\ result = Constructing

ra_data_odata_server ==
    /\ result = Constructing
    /\ resources' = get_entities(metadata)
    /\ id_map' = IdMapOf(get_entities(metadata))
    /\ result' = Idle
    /\ UNCHANGED <<metadata, call, requests, slots>>

SpecDiscovery == InitDiscovery /\ [][ra_data_odata_server]_vars

---------------------------------------------------------------------------
(* The key codec *)

\* What index.ts hands to the query builder as a key or a filter value:
\* the id wrapped by odata.identifier, or the id itself.
identifier(id) == [identifier |-> TRUE, value |-> id]
raw(id) == [identifier |-> FALSE, value |-> id]

\* The builder's rendering of such a value (index.ts:105-113): an identifier
\* is written as it is, a string is written as a quoted literal, a number
\* is written bare: "/Employees(1)" vs "/Customers('ALFKI')".
escape(token) ==
    [quoted |-> ~token.identifier /\ token.value.kind = "string",
     value  |-> token.value]

Known(resource) == toLowerCase(resource) \in DOMAIN resources

\* The type test without its Edm.Guid half.
LiteralType_int32Only(type) == type = Some("Edm.Int32")

LiteralType(type) == type = Some("Edm.Int32") \/ type = Some("Edm.Guid")

\* Defined for a resource of the catalog; index.ts throws a TypeError for
\* any other.
getproperty_identifier(resource, propertyName, id) ==
    LET p    == find(resources[toLowerCase(resource)].Type.Property, propertyName)
        type == IF p = None THEN None ELSE Some(p[1].Type)
    IN  IF LiteralType(type) THEN identifier(id) ELSE raw(id)

---------------------------------------------------------------------------
(* The query builder: the record of the calls made on it *)

Segment(name, key) == [name |-> name, key |-> key]

NoToken == raw(Undefined)

\* o.filter(expression) and o.filter(field, op, value)
ExprFilter(fn, field, text) ==
    [form |-> "expression", op |-> fn, field |-> field, text |-> text, token |-> NoToken]
CmpFilter(field, op, token) ==
    [form |-> "comparison", op |-> op, field |-> field, text |-> "", token |-> token]

\* odata({service: apiUrl})
odata ==
    [path |-> <<>>, count |-> FALSE, orderby |-> <<>>, skip |-> None,
     top |-> None, filter |-> <<>>, expand |-> <<>>]

AddResource(o, name, key) == [o EXCEPT !.path = Append(@, Segment(name, key))]
AddCount(o)               == [o EXCEPT !.count = TRUE]
AddOrderby(o, field, ord) == [o EXCEPT !.orderby = <<field, ord>>]
AddSkip(o, n)             == [o EXCEPT !.skip = Some(n)]
AddTop(o, n)              == [o EXCEPT !.top = Some(n)]
AddFilter(o, f)           == [o EXCEPT !.filter = Append(@, f)]
AddExpand(o, nav)         == [o EXCEPT !.expand = Append(@, nav)]

getresource(resource, id) ==
    LET res  == resources[toLowerCase(resource)]
        type == IF res.Key = None THEN "UnknownType" ELSE res.Key[1].Name
    IN  AddResource(odata, res.Url, Some(getproperty_identifier(resource, type, id)))

Request(method, o, data) == [method |-> method, query |-> o, data |-> data]

---------------------------------------------------------------------------
(* Responses of the transport *)

Body(tag, error, value, count, nav) ==
    [tag |-> tag, error |-> error, value |-> value, count |-> count, nav |-> nav]

\* JSON bodies: json.error, json.value, json["@odata.count"], and the
\* expanded navigation property json[params.target].
Bodies ==
    { Body("A", None, <<"r1", "r2">>, 5, <<"r3">>),
      Body("B", None, <<"r1">>, 1, <<"r1", "r2">>),
      Body("E", Some("bad request"), <<>>, 0, <<>>) }

NoBody == Body("", None, <<>>, 0, <<>>)

Statuses == {200, 201, 204, 404}

StatusMessages(status) == IF status = 404 THEN {"", "Not Found"} ELSE {""}

Response(status, message, body) ==
    [kind |-> "response", statusCode |-> status, statusMessage |-> message,
     body |-> body]

Responses ==
    UNION { { Response(st, m, b) : m \in StatusMessages(st), b \in Bodies } :
            st \in Statuses }

\* The transport's promise rejected (no response reached the handler).
TransportFailure ==
    [kind |-> "reject", statusCode |-> 0, statusMessage |-> "", body |-> NoBody]

---------------------------------------------------------------------------
(* Promises and errors *)

StatusNumber(n) == [kind |-> "number", num |-> n, message |-> ""]
StatusObject(m) == [kind |-> "object", num |-> 0, message |-> m]

\* new HttpError(message, status, body)
HttpError(message, status, body) ==
    [type |-> "HttpError", message |-> message, status |-> status, body |-> Some(body)]
\* Promise.reject(resp.body)
BodyError(body) ==
    [type |-> "body", message |-> "", status |-> StatusNumber(0), body |-> Some(body)]
\* Promise.reject(json.error.message)
MessageError(message) ==
    [type |-> "message", message |-> message, status |-> StatusNumber(0), body |-> None]
OtherError(type, message) ==
    [type |-> type, message |-> message, status |-> StatusNumber(0), body |-> None]

Pending == Promise("pending", <<>>, None, None, None)

\* {data: [...], total}
ResolvedList(data, total) == Promise("resolved", data, total, None, None)
\* {data: json}
ResolvedOne(json) == Promise("resolved", <<>>, None, Some(json), None)
Rejected(error) == Promise("rejected", <<>>, None, None, Some(error))

\* resp.statusMessage || "<default>"
OrDefault(message, default) == IF message = "" THEN default ELSE message

\* What a batch operation's handler returned for one id: the entity, or
\* {id, error}, or the id, or undefined.
SlotValue(kind, id, json, error) ==
    [kind |-> kind, id |-> id, json |-> json, error |-> error]

NoValue == SlotValue("none", Undefined, None, None)
PendingSlot == [settled |-> FALSE, outcome |-> TransportFailure, value |-> NoValue]
SettledSlot(outcome, value) == [settled |-> TRUE, outcome |-> outcome, value |-> value]

---------------------------------------------------------------------------
(* Arguments the operations are called with *)

ResourceArgs == {"Employees", "employees", "Customers", "Tokens", "Orders"}

IdArgs == {NumId(0), NumId(1), StrId("ALFKI")}

PageArgs == 1..MaxPage
\* 10 and 25 are react-admin's usual page sizes.
PerPageArgs == (1..MaxPerPage) \cup {10, 25}
PaginationArgs == [page : PageArgs, perPage : PerPageArgs]

SortArgs == [field : {"LastName"}, order : {"ASC", "DESC"}]

\* A filter object, as the sequence of its own fields in for-in order.
FilterArgs ==
    { <<>>,
      << <<"name", "foo">> >>,
      << <<"city", "bar">> >>,
      << <<"name", "foo">>, <<"city", "bar">> >>,
      << <<"city", "foo">>, <<"name", "foo">> >> }

\* params.related, params.filter.parent: an optional name
RelatedArgs == {None, Some("Orders")}
ParentArgs == {None, Some("employees"), Some("Orders")}

\* params.target: a property of the resource, or the navigation property
\* of the parent that is expanded
TargetArgs == {"Owner", "TokenID", "CustomerID", "Orders"}

DataArgs == {"attributes"}

---------------------------------------------------------------------------
(* The single-request operations *)

Start(c, reqs, promise) ==
    /\ call' = c
    /\ requests' = reqs
    /\ slots' = [i \in 1..Len(reqs) |-> PendingSlot]
    /\ result' = promise
    /\ UNCHANGED <<metadata, resources, id_map>>

\* An operation that dereferences the catalog entry of a resource that has
\* none dies of a TypeError before it issues its request.
TypeError == OtherError("TypeError", "Cannot read properties of undefined")

\* One-based page taken as zero-based.
Skip_zeroBased(pagination) == pagination.page * pagination.perPage

Skip(pagination) == (pagination.page - 1) * pagination.perPage

\* The loop leaving after its first field.
AddContains_firstOnly(o, filter) ==
    IF filter = <<>> THEN o
    ELSE AddFilter(o, ExprFilter("Contains", Head(filter)[1], Head(filter)[2]))

RECURSIVE AddContains(_, _)
AddContains(o, filter) ==
    IF filter = <<>> THEN o
    ELSE AddContains(AddFilter(o, ExprFilter("Contains", Head(filter)[1], Head(filter)[2])),
                     Tail(filter))

getListQuery(resource, params) ==
    LET o1 == AddCount(odata)
        o2 == IF Truthy(params.id)
              THEN AddResource(o1, resource, Some(raw(params.id)))
              ELSE AddResource(o1, resource, None)
        o3 == IF params.related # None
              THEN AddResource(o2, params.related[1], None)
              ELSE o2
        o4 == AddTop(AddSkip(AddOrderby(o3, params.sort.field, params.sort.order),
                             Skip(params.pagination)),
                     params.pagination.perPage)
    IN  AddContains(o4, params.filter)

getList ==
    /\ result.state = "idle"
    /\ \E resource \in ResourceArgs, pagination \in PaginationArgs, sort \in SortArgs,
       filter \in FilterArgs, id \in IdArgs \cup {Undefined}, related \in RelatedArgs :
        LET params == [pagination |-> pagination, sort |-> sort, filter |-> filter,
                       id |-> id, related |-> related]
        IN  Start([op |-> "getList", resource |-> resource, params |-> params],
                  << Request("GET", getListQuery(resource, params), None) >>,
                  Pending)

getListHandler(resp) ==
    IF resp.statusCode # 200
    THEN Rejected(HttpError(OrDefault(resp.statusMessage, "getList error"),
                            StatusNumber(resp.statusCode), resp.body))
    ELSE IF resp.body.error # None
    THEN Rejected(MessageError(resp.body.error[1]))
    ELSE ResolvedList(resp.body.value, Some(resp.body.count))

getOne ==
    /\ result.state = "idle"
    /\ \E resource \in ResourceArgs, id \in IdArgs :
        LET c == [op |-> "getOne", resource |-> resource, params |-> [id |-> id]]
        IN  IF Known(resource)
            THEN Start(c, << Request("GET", getresource(resource, id), None) >>, Pending)
            ELSE Start(c, <<>>, Rejected(TypeError))

getOneHandler(resp) ==
    IF resp.statusCode # 200
    THEN Rejected(HttpError(OrDefault(resp.statusMessage, "getOne error"),
                            StatusNumber(resp.statusCode), resp.body))
    ELSE IF resp.body.error # None
    THEN Rejected(MessageError(resp.body.error[1]))
    ELSE ResolvedOne(resp.body)

\* The request of getManyReference for a truthy params.id; the chain of
\* index.ts:255-258 acts on the builder of either strategy.
getManyReferenceQuery(resource, params) ==
    LET o == IF params.filter.parent # None
             THEN AddExpand(getresource(params.filter.parent[1], params.id),
                            params.target)
             ELSE AddFilter(AddCount(AddResource(odata, resource, None)),
                            CmpFilter(params.target, "=",
                                      getproperty_identifier(resource, params.target,
                                                             params.id)))
    IN  AddTop(AddSkip(AddOrderby(AddCount(o), params.sort.field, params.sort.order),
                       Skip(params.pagination)),
               params.pagination.perPage)

\* The resource whose catalog entry the request is built from.
getManyReferenceLookup(resource, params) ==
    IF params.filter.parent # None THEN params.filter.parent[1] ELSE resource

getManyReference ==
    /\ result.state = "idle"
    /\ \E resource \in ResourceArgs, pagination \in PaginationArgs, sort \in SortArgs,
       parent \in ParentArgs, target \in TargetArgs, id \in IdArgs \cup {Undefined} :
        LET params == [pagination |-> pagination, sort |-> sort,
                       filter |-> [parent |-> parent], target |-> target, id |-> id]
            c == [op |-> "getManyReference", resource |-> resource, params |-> params]
        IN  IF ~Truthy(id)
            THEN Start(c, <<>>, ResolvedList(<<>>, Some(0)))
            ELSE IF Known(getManyReferenceLookup(resource, params))
            THEN Start(c, << Request("GET", getManyReferenceQuery(resource, params), None) >>,
                       Pending)
            ELSE Start(c, <<>>, Rejected(TypeError))

getManyReferenceHandler(params, resp) ==
    IF resp.statusCode # 200
    THEN Rejected(BodyError(resp.body))
    ELSE IF resp.body.error # None
    THEN Rejected(MessageError(resp.body.error[1]))
    ELSE IF params.filter.parent # None
    THEN ResolvedList(resp.body.nav, Some(Len(resp.body.nav)))
    ELSE ResolvedList(resp.body.value, Some(resp.body.count))

update ==
    /\ result.state = "idle"
    /\ \E resource \in ResourceArgs, id \in IdArgs, data \in DataArgs :
        LET c == [op |-> "update", resource |-> resource,
                  params |-> [id |-> id, data |-> data]]
        IN  IF Known(resource)
            THEN Start(c, << Request("PATCH", getresource(resource, id), Some(data)) >>,
                       Pending)
            ELSE Start(c, <<>>, Rejected(TypeError))

\* The handler of update, create and delete (index.ts:287-296, 309-318,
\* 324-333 are the same code).
writeHandler(resp) ==
    IF resp.statusCode # 200
    THEN Rejected(BodyError(resp.body))
    ELSE IF resp.body.error # None
    THEN Rejected(MessageError(resp.body.error[1]))
    ELSE ResolvedOne(resp.body)

updateMany ==
    /\ result.state = "idle"
    /\ \E resource \in ResourceArgs :
        Start([op |-> "updateMany", resource |-> resource, params |-> <<>>], <<>>,
              Rejected(OtherError("Error", "not implemented")))

\* Whether create posts under a parent entity (related && id).
createRelated(params) == params.related # None /\ Truthy(params.id)

createQuery(resource, params) ==
    IF createRelated(params)
    THEN AddResource(getresource(resource, params.id), params.related[1], None)
    ELSE AddResource(odata, resource, None)

create ==
    /\ result.state = "idle"
    /\ \E resource \in ResourceArgs, id \in IdArgs \cup {Undefined},
       related \in RelatedArgs, data \in DataArgs :
        LET params == [id |-> id, related |-> related, data |-> data]
            c == [op |-> "create", resource |-> resource, params |-> params]
        IN  IF createRelated(params) /\ ~Known(resource)
            THEN Start(c, <<>>, Rejected(TypeError))
            ELSE Start(c, << Request("POST", createQuery(resource, params), Some(data)) >>,
                       Pending)

delete ==
    /\ result.state = "idle"
    /\ \E resource \in ResourceArgs, id \in IdArgs :
        LET c == [op |-> "delete", resource |-> resource, params |-> [id |-> id]]
        IN  IF Known(resource)
            THEN Start(c, << Request("DELETE", getresource(resource, id), None) >>, Pending)
            ELSE Start(c, <<>>, Rejected(TypeError))

SingleOps == {"getList", "getOne", "getManyReference", "update", "create", "delete"}

\* The handler the operation in progress passed to .then
Handler(c, resp) ==
    CASE c.op = "getList"          -> getListHandler(resp)
      [] c.op = "getOne"           -> getOneHandler(resp)
      [] c.op = "getManyReference" -> getManyReferenceHandler(c.params, resp)
      [] OTHER                     -> writeHandler(resp)

\* The transport answers the request and the operation's handler runs.
Then ==
    /\ call.op \in SingleOps
    /\ result.state = "pending"
    /\ \E resp \in Responses :
        /\ slots' = << SettledSlot(resp, NoValue) >>
        /\ result' = Handler(call, resp)
    /\ UNCHANGED <<metadata, resources, id_map, call, requests>>

\* The transport's promise rejects: no handler runs, the rejection is the
\* operation's.
TransportError == OtherError("transport", "network error")

Catch ==
    /\ call.op \in SingleOps
    /\ result.state = "pending"
    /\ slots' = << SettledSlot(TransportFailure, NoValue) >>
    /\ result' = Rejected(TransportError)
    /\ UNCHANGED <<metadata, resources, id_map, call, requests>>

\* The caller takes the settled promise; the provider is ready for the next call.
Return ==
    /\ result.state \in {"resolved", "rejected"}
    /\ call' = NoCall
    /\ requests' = <<>>
    /\ slots' = <<>>
    /\ result' = Idle
    /\ UNCHANGED <<metadata, resources, id_map>>

---------------------------------------------------------------------------
(* The provider after construction *)

Init ==
    /\ metadata \in ProgramDocuments
    /\ resources = get_entities(metadata)
    /\ id_map = IdMapOf(get_entities(metadata))
    /\ call = NoCall
    /\ requests = <<>>
    /\ slots = <<>>
    /\ result = Idle

Next ==
    \/ getList
    \/ getOne
    \/ getManyReference
    \/ update
    \/ updateMany
    \/ create
    \/ delete
    \/ Then
    \/ Catch
    \/ Return

Spec == Init /\ [][Next]_vars

---------------------------------------------------------------------------
(* The batch operations *)

BatchIdArgs == {NumId(1), NumId(2), NumId(3)}

RECURSIVE SeqsUpTo(_, _)
SeqsUpTo(S, n) ==
    IF n = 0 THEN { <<>> }
    ELSE LET shorter == SeqsUpTo(S, n - 1)
         IN  shorter \cup { Append(q, x) : q \in shorter, x \in S }

IdsArgs == SeqsUpTo(BatchIdArgs, MaxIds)

\* What a sub-request is answered with
BatchResponses == { r \in Responses : r.statusMessage = "" /\ r.body.tag \in {"A", "E"} }

BatchOps == {"getMany", "deleteMany"}

\* {data: values}
ResolvedMany(values) == Promise("resolved", values, None, None, None)

\* params.ids.map(id => getresource(resource, id).<method>(options).then(...)):
\* the first getresource throws when the resource has no catalog entry, and
\* Promise.all of no promises is already fulfilled.
StartBatch(op, method, resource, ids) ==
    LET c == [op |-> op, resource |-> resource, params |-> [ids |-> ids]]
    IN  IF ids = <<>>
        THEN Start(c, <<>>, ResolvedMany(<<>>))
        ELSE IF ~Known(resource)
        THEN Start(c, <<>>, Rejected(TypeError))
        ELSE Start(c, [i \in 1..Len(ids) |->
                         Request(method, getresource(resource, ids[i]), None)],
                   Pending)

getMany ==
    /\ result.state = "idle"
    /\ \E resource \in ResourceArgs, ids \in IdsArgs :
        StartBatch("getMany", "GET", resource, ids)

getManyHandler(id, resp) ==
    IF resp.statusCode # 200
    THEN SlotValue("error", id, None,
                   Some(HttpError(OrDefault(resp.statusMessage, "getMany error"),
                                  StatusNumber(resp.statusCode), resp.body)))
    ELSE IF resp.body.error # None
    THEN SlotValue("error", id, None,
                   Some(HttpError(OrDefault(resp.statusMessage, "getMany error"),
                                  StatusObject(resp.body.error[1]), resp.body)))
    ELSE SlotValue("json", Undefined, Some(resp.body), None)

deleteMany ==
    /\ result.state = "idle"
    /\ \E resource \in ResourceArgs, ids \in IdsArgs :
        StartBatch("deleteMany", "DELETE", resource, ids)

deleteManyHandler(id, resp) ==
    IF resp.statusCode >= 200 /\ resp.statusCode < 300
    THEN SlotValue("id", id, None, None)
    ELSE SlotValue("undefined", Undefined, None, None)

\* Promise.all over the sub-promises, after one of them has settled: it
\* rejects with the first rejection, and fulfils, with the values in the
\* order of the promises, once all of them are fulfilled.
PromiseAll(promise, subs) ==
    IF promise.state # "pending" THEN promise
    ELSE IF \E i \in DOMAIN subs : subs[i].settled /\ subs[i].outcome.kind = "reject"
    THEN Rejected(TransportError)
    ELSE IF \A i \in DOMAIN subs : subs[i].settled
    THEN ResolvedMany([i \in DOMAIN subs |-> subs[i].value])
    ELSE promise

\* One sub-request settles, in any order: its handler runs on the response,
\* or the transport's promise rejects.
SubSettles(op, i, outcome, value) ==
    /\ call.op = op
    /\ result.state \in {"pending", "rejected"}
    /\ i \in DOMAIN slots
    /\ ~slots[i].settled
    /\ slots' = [slots EXCEPT ![i] = SettledSlot(outcome, value)]
    /\ result' = PromiseAll(result, slots')
    /\ UNCHANGED <<metadata, resources, id_map, call, requests>>

getManyThen ==
    \E i \in DOMAIN slots, resp \in BatchResponses :
        SubSettles("getMany", i, resp, getManyHandler(call.params.ids[i], resp))

deleteManyThen ==
    \E i \in DOMAIN slots, resp \in BatchResponses :
        SubSettles("deleteMany", i, resp, deleteManyHandler(call.params.ids[i], resp))

SubCatch ==
    \E i \in DOMAIN slots :
        /\ call.op \in BatchOps
        /\ SubSettles(call.op, i, TransportFailure, NoValue)

NextBatch ==
    \/ getMany
    \/ deleteMany
    \/ getManyThen
    \/ deleteManyThen
    \/ SubCatch
    \/ Return

SpecBatch == Init /\ [][NextBatch]_vars

---------------------------------------------------------------------------
(* Properties *)

Range(seq) == { seq[i] : i \in DOMAIN seq }

Constructed == result.state # "constructing"

\* The declarations of the document, read off the document itself.
DeclaredSets == UNION { Range(metadata.Schema[i].EntitySet) : i \in DOMAIN metadata.Schema }
DeclaredTypes(qualified) ==
    UNION { { e \in Range(metadata.Schema[i].EntityType) :
                metadata.Schema[i].Namespace \o "." \o e.Name = qualified } :
            i \in DOMAIN metadata.Schema }

\* C5, as claimed: every entity set of the catalog has its Key present and
\* a type that declares exactly one key property, and no entity set of a
\* keyless or compound-key type is in the catalog.
C5_KeyNeverAbsent ==
    Constructed =>
        /\ \A r \in DOMAIN resources :
              resources[r].Key # None /\ resources[r].Type.Key # None
        /\ \A s \in DeclaredSets :
              toLowerCase(s.Name) \in DOMAIN resources
                  => \E e \in DeclaredTypes(s.EntityType) : Len(e.PropertyRef) = 1

\* C5, amended: an entity set is in the catalog exactly when its type
\* declares a Key with a single PropertyRef (never for a keyless,
\* compound-key or undeclared type); its Key is the property of the type's
\* own list that the PropertyRef names, and is absent when the list holds
\* no property of that name.
C5_CatalogHoldsSingleKeyTypes ==
    Constructed =>
        /\ DOMAIN resources \subseteq { toLowerCase(s.Name) : s \in DeclaredSets }
        /\ \A s \in DeclaredSets :
              LET r == toLowerCase(s.Name)
              IN  /\ r \in DOMAIN resources
                        <=> \E e \in DeclaredTypes(s.EntityType) : Len(e.PropertyRef) = 1
                  /\ \A e \in DeclaredTypes(s.EntityType) :
                        Len(e.PropertyRef) = 1 =>
                            /\ resources[r].Url = s.Name
                            /\ resources[r].Type.Property = e.Property
                            /\ resources[r].Key = resources[r].Type.Key
                            /\ Len(resources[r].Key) <= 1
                            /\ resources[r].Key = None
                                  <=> ~\E p \in Range(e.Property) : p.Name = e.PropertyRef[1]
                            /\ resources[r].Key # None
                                  => /\ resources[r].Key[1] \in Range(e.Property)
                                     /\ resources[r].Key[1].Name = e.PropertyRef[1]

\* A catalog with a resource whose Key is absent, one whose Key is present,
\* and an entity set of a compound-key type left out.
C5_Witness ==
    /\ Constructed
    /\ "employees" \in DOMAIN resources /\ resources["employees"].Key = None
    /\ "tokens" \in DOMAIN resources /\ resources["tokens"].Key # None
    /\ "customers" \notin DOMAIN resources
    /\ \E e \in DeclaredTypes("NW.Customer") : Len(e.PropertyRef) = 2

\* The requests the operation in progress issued for a paged listing:
\* getList's, and getManyReference's under the filter strategy.
PagedRequest ==
    /\ requests # <<>>
    /\ \/ call.op = "getList"
       \/ call.op = "getManyReference" /\ call.params.filter.parent = None

\* C7: a paged request carries skip = (page-1)*perPage and top = perPage,
\* with the sort clause and the inline count flag.
C7_SkipAndTop ==
    PagedRequest =>
        LET q == requests[1].query
            pg == call.params.pagination
        IN  /\ q.skip = Some((pg.page - 1) * pg.perPage)
            /\ q.top = Some(pg.perPage)
            /\ q.orderby = <<call.params.sort.field, call.params.sort.order>>
            /\ q.count

\* page=3, perPage=10 gives skip=20, top=10
C7_Witness ==
    /\ PagedRequest
    /\ call.op = "getList"
    /\ call.params.pagination = [page |-> 3, perPage |-> 10]
    /\ requests[1].query.skip = Some(20)
    /\ requests[1].query.top = Some(10)

\* C8: getList's request carries exactly one Contains(field,'value') per
\* field of the filter, conjoined (all of them, none twice), and no filter
\* clause for an empty filter.
C8_OneContainsPerField ==
    (call.op = "getList" /\ requests # <<>>) =>
        LET f == requests[1].query.filter
            given == call.params.filter
        IN  /\ Len(f) = Len(given)
            /\ \A i \in DOMAIN given :
                  /\ Cardinality({ j \in DOMAIN f : f[j].field = given[i][1] }) = 1
                  /\ \E j \in DOMAIN f :
                        f[j] = ExprFilter("Contains", given[i][1], given[i][2])
            /\ given = <<>> => f = <<>>

\* {name: "foo", city: "bar"} yields both predicates
C8_Witness ==
    /\ call.op = "getList" /\ requests # <<>>
    /\ call.params.filter = << <<"name", "foo">>, <<"city", "bar">> >>
    /\ ExprFilter("Contains", "name", "foo") \in Range(requests[1].query.filter)
    /\ ExprFilter("Contains", "city", "bar") \in Range(requests[1].query.filter)

\* The type the catalog declares for a property of a resource, read off
\* the catalog: absent when the property list holds no such property.
DeclaredType(resource, propertyName) ==
    LET ps == { p \in Range(resources[toLowerCase(resource)].Type.Property) :
                  p.Name = propertyName }
    IN  IF ps = {} THEN None ELSE Some((CHOOSE p \in ps : TRUE).Type)

KeyType(resource) ==
    LET key == resources[toLowerCase(resource)].Key
    IN  IF key = None THEN None ELSE DeclaredType(resource, key[1].Name)

\* The key tokens and filter values of the request in progress that the
\* codec built: each with the id it was built from and the declared type
\* of the property it stands for.
CodecUses ==
    IF requests = <<>> THEN {}
    ELSE LET q == requests[1].query
         IN  CASE call.op \in {"getOne", "update", "delete"} ->
                    { [token |-> q.path[1].key[1], id |-> call.params.id,
                       type |-> KeyType(call.resource)] }
               [] call.op = "create" /\ createRelated(call.params) ->
                    { [token |-> q.path[1].key[1], id |-> call.params.id,
                       type |-> KeyType(call.resource)] }
               [] call.op = "getManyReference" /\ call.params.filter.parent # None ->
                    { [token |-> q.path[1].key[1], id |-> call.params.id,
                       type |-> KeyType(call.params.filter.parent[1])] }
               [] call.op = "getManyReference" /\ call.params.filter.parent = None ->
                    { [token |-> q.filter[1].token, id |-> call.params.id,
                       type |-> DeclaredType(call.resource, call.params.target)] }
               [] OTHER -> {}

IsLiteral(type) == type \in { Some("Edm.Int32"), Some("Edm.Guid") }

\* C4, as claimed: the token is unquoted for an Edm.Int32 or Edm.Guid
\* property, quoted for a property of any other declared type, unquoted for
\* a property the entity does not declare, whatever the id.
C4_QuotedByDeclaredType ==
    \A u \in CodecUses :
        /\ escape(u.token).value = u.id
        /\ escape(u.token).quoted <=> (u.type # None /\ ~IsLiteral(u.type))

\* C4, amended: the id is wrapped as an identifier, which the builder
\* writes unquoted, exactly when the declared type is Edm.Int32 or
\* Edm.Guid; for any other declared type and for an undeclared property
\* alike the id is passed as it is, which the builder writes quoted when it
\* is a string and bare when it is a number.
C4_IdentifierForLiteralTypes ==
    \A u \in CodecUses :
        /\ u.token.value = u.id
        /\ u.token.identifier <=> IsLiteral(u.type)
        /\ escape(u.token).quoted <=> (~IsLiteral(u.type) /\ u.id.kind = "string")

\* The codec at work on each case: a Guid property with a string id
\* (unquoted), a string property with a string id (quoted), an undeclared
\* property with a string id (quoted), a string property with a number
\* (bare).
C4_Witness ==
    \E u \in CodecUses :
        /\ u.type = None
        /\ u.id = StrId("ALFKI")
        /\ escape(u.token).quoted
        /\ call.op = "getOne"

C4_WitnessGuid ==
    \E u \in CodecUses :
        u.type = Some("Edm.Guid") /\ u.id.kind = "string" /\ ~escape(u.token).quoted

C4_WitnessNumber ==
    \E u \in CodecUses :
        u.type = Some("Edm.String") /\ u.id.kind = "number" /\ ~escape(u.token).quoted

---------------------------------------------------------------------------
(* Properties the code does not have *)

Is2xx(status) == status >= 200 /\ status < 300

\* The response the single-request operation in progress was answered with.
Answered ==
    /\ call.op \in SingleOps
    /\ slots # <<>>
    /\ slots[1].settled
    /\ slots[1].outcome.kind = "response"

\* C3: every operation classifies its response by the same three rules: a
\* non-2xx status is a failure; a 2xx status with error.message in the body
\* is a server failure with that message; any other 2xx response (201 and
\* 204 as well as 200) is a success.
C3_ClassifiedBy2xx ==
    Answered =>
        LET resp == slots[1].outcome
        IN  /\ ~Is2xx(resp.statusCode) => result.state = "rejected"
            /\ (Is2xx(resp.statusCode) /\ resp.body.error # None)
                  => /\ result.state = "rejected"
                     /\ result.error[1].message = resp.body.error[1]
            /\ (Is2xx(resp.statusCode) /\ resp.body.error = None)
                  => result.state = "resolved"

\* C6: getManyReference without a scoping id returns {data: [], total: 0}
\* and issues no request; with a scoping id and a parent it issues one
\* expansion request on the parent, asks for no count, and reports the
\* length of the expanded collection as total; with a scoping id and no
\* parent it issues one filter request on the resource and reports the
\* server's count as total.
C6_StrategyByParentAndId ==
    (call.op = "getManyReference"
       /\ Known(getManyReferenceLookup(call.resource, call.params))) =>
        LET ps == call.params
        IN  /\ ps.id = Undefined
                  => /\ requests = <<>>
                     /\ result = ResolvedList(<<>>, Some(0))
            /\ (ps.id # Undefined /\ ps.filter.parent # None)
                  => /\ Len(requests) = 1
                     /\ requests[1].query.expand = <<ps.target>>
                     /\ requests[1].query.path[1].name
                            = resources[toLowerCase(ps.filter.parent[1])].Url
                     /\ ~requests[1].query.count
                     /\ (Answered /\ result.state = "resolved")
                            => result.total = Some(Len(result.data))
            /\ (ps.id # Undefined /\ ps.filter.parent = None)
                  => /\ Len(requests) = 1
                     /\ Len(requests[1].query.filter) = 1
                     /\ requests[1].query.filter[1].field = ps.target
                     /\ requests[1].query.path[1].name = call.resource
                     /\ (Answered /\ result.state = "resolved")
                            => result.total = Some(slots[1].outcome.body.count)

\* The operations whose request addresses the resource they are called on
\* (getManyReference with a parent addresses the parent instead).
AddressesResource ==
    /\ call.op \in SingleOps
    /\ requests # <<>>
    /\ ~(call.op = "getManyReference" /\ call.params.filter.parent # None)

\* C10: every operation resolves the resource name case-insensitively: the
\* path of its request starts with the catalog's Url of that entity set,
\* whatever the letter case of the name it was called with.
C10_PathIsCatalogUrl ==
    (AddressesResource /\ Known(call.resource)) =>
        requests[1].query.path[1].name = resources[toLowerCase(call.resource)].Url

RECURSIVE Deleted(_, _)
\* The ids, in order, whose delete was answered with a 2xx status.
Deleted(ids, subs) ==
    IF ids = <<>> THEN <<>>
    ELSE LET rest == Deleted(Tail(ids), Tail(subs))
         IN  IF Head(subs).outcome.kind = "response"
                  /\ Is2xx(Head(subs).outcome.statusCode)
             THEN <<Head(ids)>> \o rest
             ELSE rest

\* C1: deleteMany returns exactly the ids whose delete was answered with a
\* 2xx status, in input order, with no entry for an id whose delete failed.
C1_OnlyDeletedIds ==
    (call.op = "deleteMany" /\ result.state = "resolved") =>
        LET ok == Deleted(call.params.ids, slots)
        IN  /\ Len(result.data) = Len(ok)
            /\ \A j \in DOMAIN ok :
                  result.data[j].kind = "id" /\ result.data[j].id = ok[j]

AllAnswered ==
    \A i \in DOMAIN slots : slots[i].settled /\ slots[i].outcome.kind = "response"

\* C2: whatever each id's request is answered with (success, a non-2xx
\* status, a 2xx status with an error envelope), getMany resolves with one
\* slot per id, {id, error} for each failing id and the entity for every
\* other.
C2_ErrorPerFailingSlot ==
    (call.op = "getMany" /\ requests # <<>> /\ AllAnswered) =>
        /\ result.state = "resolved"
        /\ Len(result.data) = Len(call.params.ids)
        /\ \A i \in DOMAIN slots :
              LET resp == slots[i].outcome
              IN  IF ~Is2xx(resp.statusCode) \/ resp.body.error # None
                  THEN /\ result.data[i].kind = "error"
                       /\ result.data[i].id = call.params.ids[i]
                       /\ result.data[i].error # None
                  ELSE /\ result.data[i].kind = "json"
                       /\ result.data[i].json = Some(resp.body)

\* C9: a batch call completes only after every one of its sub-requests has
\* settled, and slot i of its result is that of ids[i], whatever the order
\* the sub-requests completed in.
C9_CompletesAfterAllSettled ==
    (call.op \in BatchOps /\ result.state \in {"resolved", "rejected"}) =>
        /\ \A i \in DOMAIN slots : slots[i].settled
        /\ result.state = "resolved"
              => /\ Len(result.data) = Len(call.params.ids)
                 /\ \A i \in DOMAIN slots : result.data[i] = slots[i].value

=============================================================================
